---- MODULE Spec2Model ----
(***************************************************************************)
(* Hybrid (dense + BM25) retrieval of digs1998/Tax-Code-RAG:               *)
(* src/src/retrieval/search.py and its callers src/src/http_server.py and  *)
(* src/src/main.py.                                                        *)
(*                                                                         *)
(* Scores are Python floats in the source; here they are exact rationals   *)
(* <<numerator, denominator>> kept in lowest terms with a positive         *)
(* denominator, so equal scores are equal values.                          *)
(*                                                                         *)
(* A chunk's text is the pair <<prefix, rest>>: prefix stands for its      *)
(* first 100 characters and rest for what follows, so text[:100] is the    *)
(* first component.                                                        *)
(***************************************************************************)
EXTENDS Integers, Sequences, FiniteSets, TLC

VARIABLES
    bm25_index,       \* search.py:8   _bm25_index (None or the BM25Okapi object)
    bm25_docs,        \* search.py:9   _bm25_docs
    bm25_metadata,    \* search.py:10  _bm25_metadata
    call,             \* the library call that returned last and its arguments
                      \* (op "idle": the caller holds no result)
    semantic_results, \* search.py:143 semantic_results after normalize_scores
    bm25_results,     \* search.py:144 bm25_results after normalize_scores
    combined_scores,  \* search.py:147 combined_scores.values(), insertion order
    returned,         \* the value the call returned
    threads,          \* SpecThreads: each thread's call, position and locals
    entry             \* SpecEntry: the request in hand and its response

vars == <<bm25_index, bm25_docs, bm25_metadata, call, semantic_results,
          bm25_results, combined_scores, returned, threads, entry>>

\* What the sequential library calls leave alone.
others == <<threads, entry>>

-----------------------------------------------------------------------------
(* Bounds *)

NumChunks == 3      \* chunks in the corpus
MaxK == 2           \* largest k a caller passes to the library functions
NumThreads == 2     \* threads that call the library concurrently

-----------------------------------------------------------------------------
(* Rational arithmetic standing for Python float arithmetic *)

Abs(x) == IF x < 0 THEN -x ELSE x

RECURSIVE GCD(_, _)
GCD(a, b) == IF b = 0 THEN a ELSE GCD(b, a % b)

Rat(n, d) ==
    LET s == IF d < 0 THEN -1 ELSE 1
        g == GCD(Abs(n), Abs(d))
    IN  <<(s * n) \div g, (s * d) \div g>>

Zero == <<0, 1>>
One == <<1, 1>>
RAdd(a, b) == Rat(a[1] * b[2] + b[1] * a[2], a[2] * b[2])
RSub(a, b) == Rat(a[1] * b[2] - b[1] * a[2], a[2] * b[2])
RMul(a, b) == Rat(a[1] * b[1], a[2] * b[2])
RDiv(a, b) == Rat(a[1] * b[2], a[2] * b[1])
RLe(a, b) == a[1] * b[2] <= b[1] * a[2]
RLt(a, b) == a[1] * b[2] < b[1] * a[2]
RMin(a, b) == IF RLe(a, b) THEN a ELSE b
RMax(a, b) == IF RLe(a, b) THEN b ELSE a

RECURSIVE SeqMin(_)
SeqMin(s) == IF Len(s) = 1 THEN s[1] ELSE RMin(s[1], SeqMin(Tail(s)))

RECURSIVE SeqMax(_)
SeqMax(s) == IF Len(s) = 1 THEN s[1] ELSE RMax(s[1], SeqMax(Tail(s)))

Take(s, n) == SubSeq(s, 1, IF n < Len(s) THEN n ELSE Len(s))

Reverse(s) == [i \in 1..Len(s) |-> s[Len(s) + 1 - i]]

-----------------------------------------------------------------------------
(* The corpus held by the vector store, and the external collaborators *)

None == [py |-> "None"]     \* Python None, and a dict key that is not set

Chunks == 1..NumChunks

\* Chunks 1 and 2 share their first 100 characters, chunk 3 shares them with
\* chunk 4 (when there is one), and so on: the corpus has colliding and
\* non-colliding fusion keys.
Corpus == [i \in Chunks |-> <<(i + 1) \div 2, i>>]

\* Distances the dense retriever reports (Chroma: floats >= 0).
Distances == {0, 1, 3}

\* Scores BM25Okapi.get_scores reports for a chunk (unbounded floats).
BM25Scores == {0, 1, 3}

\* Weights a caller passes: 0, 0.3, 0.5, 1.
Alphas == {<<0, 1>>, <<3, 10>>, <<1, 2>>, <<1, 1>>}

\* The chunks of s, ordered by (distance, chunk).
RECURSIVE SortByDistance(_, _)
SortByDistance(S, f) ==
    IF S = {} THEN <<>>
    ELSE LET c == CHOOSE x \in S :
                    \A y \in S : f[x] < f[y] \/ (f[x] = f[y] /\ x <= y)
         IN  <<<<c, f[c]>>>> \o SortByDistance(S \ {c}, f)

\* What db.similarity_search_with_score can answer for some query with an
\* unbounded k: a ranking of some of the chunks, nearest first, no two of them
\* at the same distance.
DenseAnswers ==
    UNION {{SortByDistance(S, f) :
                f \in {g \in [S -> Distances] :
                          \A x, y \in S : x # y => g[x] # g[y]}} :
           S \in SUBSET Chunks}

\* What get_scores can answer for some query: one score per chunk.
ScoreVectors == [Chunks -> BM25Scores]

-----------------------------------------------------------------------------
(* search_semantic, search.py:50-68 *)

search_semantic(dense, k) ==
    LET results == Take(dense, k)
    IN  [i \in 1..Len(results) |->
            [text |-> Corpus[results[i][1]],
             chunk |-> results[i][1],
             score |-> Rat(1, 1 + results[i][2]),
             normalized_score |-> None]]

-----------------------------------------------------------------------------
(* search_bm25, search.py:71-100 *)

\* np.argsort(scores): a permutation that sorts the scores ascending; the
\* default kind is not stable, so equal scores come in any order.
ArgsortResults(scores) ==
    {p \in [Chunks -> Chunks] :
        /\ \A i, j \in Chunks : i # j => p[i] # p[j]
        /\ \A i \in Chunks : i < NumChunks => scores[p[i]] <= scores[p[i + 1]]}

\* Mutant of PositiveHits: the filter is scores[idx] >= 0.
RECURSIVE PositiveHits_NonNegative(_, _)
PositiveHits_NonNegative(top_indices, scores) ==
    IF top_indices = <<>> THEN <<>>
    ELSE LET idx == Head(top_indices)
             rest == PositiveHits_NonNegative(Tail(top_indices), scores)
         IN  IF scores[idx] >= 0
             THEN <<[text |-> Corpus[idx],
                     chunk |-> idx,
                     score |-> Rat(scores[idx], 1),
                     normalized_score |-> None]>> \o rest
             ELSE rest

RECURSIVE PositiveHits(_, _)
PositiveHits(top_indices, scores) ==
    IF top_indices = <<>> THEN <<>>
    ELSE LET idx == Head(top_indices)
             rest == PositiveHits(Tail(top_indices), scores)
         IN  IF scores[idx] > 0
             THEN <<[text |-> Corpus[idx],
                     chunk |-> idx,
                     score |-> Rat(scores[idx], 1),
                     normalized_score |-> None]>> \o rest
             ELSE rest

\* index is _bm25_index; argsorted is what np.argsort(scores) returned.
search_bm25(index, scores, argsorted, k) ==
    IF index = None THEN <<>>
    ELSE PositiveHits(Take(Reverse(argsorted), k), scores)

-----------------------------------------------------------------------------
(* normalize_scores, search.py:125-141 *)

\* Mutant of normalize_scores: scales by max_score instead of the spread.
normalize_scores_ByMax(results) ==
    IF Len(results) < 2 THEN results
    ELSE LET scores == [i \in 1..Len(results) |-> results[i].score]
             min_score == SeqMin(scores)
             max_score == SeqMax(scores)
         IN  IF max_score = min_score
             THEN [i \in 1..Len(results) |->
                     [results[i] EXCEPT !.normalized_score = One]]
             ELSE [i \in 1..Len(results) |->
                     [results[i] EXCEPT !.normalized_score =
                         RDiv(RSub(results[i].score, min_score), max_score)]]

normalize_scores(results) ==
    IF Len(results) < 2 THEN results
    ELSE LET scores == [i \in 1..Len(results) |-> results[i].score]
             min_score == SeqMin(scores)
             max_score == SeqMax(scores)
         IN  IF max_score = min_score
             THEN [i \in 1..Len(results) |->
                     [results[i] EXCEPT !.normalized_score = One]]
             ELSE [i \in 1..Len(results) |->
                     [results[i] EXCEPT !.normalized_score =
                         RDiv(RSub(results[i].score, min_score),
                              RSub(max_score, min_score))]]

-----------------------------------------------------------------------------
(* The fusion pass of search, search.py:146-205 *)

\* result.get('normalized_score', result['score'])
GetNormalized(result) ==
    IF result.normalized_score = None THEN result.score
    ELSE result.normalized_score

KeyOf(result) == result.text[1]     \* result['text'][:100]

HasKey(combined, key) == \E i \in 1..Len(combined) : combined[i].key = key

\* if key not in combined_scores: combined_scores[key] = {...}
WithKey(combined, result) ==
    IF HasKey(combined, KeyOf(result)) THEN combined
    ELSE Append(combined, [key |-> KeyOf(result),
                           result |-> result,
                           semantic_score |-> Zero,
                           bm25_score |-> Zero,
                           count |-> 0])

\* One pass of the loop of search.py:150-160.
AddSemantic(combined, result) ==
    LET c == WithKey(combined, result)
    IN  [i \in 1..Len(c) |->
            IF c[i].key = KeyOf(result)
            THEN [c[i] EXCEPT !.semantic_score = GetNormalized(result),
                              !.count = @ + 1]
            ELSE c[i]]

\* One pass of the loop of search.py:163-173.
AddBm25(combined, result) ==
    LET c == WithKey(combined, result)
    IN  [i \in 1..Len(c) |->
            IF c[i].key = KeyOf(result)
            THEN [c[i] EXCEPT !.bm25_score = GetNormalized(result),
                              !.count = @ + 1]
            ELSE c[i]]

RECURSIVE AddAllSemantic(_, _)
AddAllSemantic(combined, results) ==
    IF results = <<>> THEN combined
    ELSE AddAllSemantic(AddSemantic(combined, Head(results)), Tail(results))

RECURSIVE AddAllBm25(_, _)
AddAllBm25(combined, results) ==
    IF results = <<>> THEN combined
    ELSE AddAllBm25(AddBm25(combined, Head(results)), Tail(results))

ConsensusBoost == <<6, 5>>      \* search.py:182  final_score *= 1.2

\* Mutant of FinalScore: the clamp of search.py:185 is left out.
FinalScore_NoClamp(data, alpha) ==
    LET blended == RAdd(RMul(alpha, data.semantic_score),
                        RMul(RSub(One, alpha), data.bm25_score))
    IN  IF data.count > 1 THEN RMul(blended, ConsensusBoost) ELSE blended

\* search.py:178-185
FinalScore(data, alpha) ==
    LET blended == RAdd(RMul(alpha, data.semantic_score),
                        RMul(RSub(One, alpha), data.bm25_score))
        boosted == IF data.count > 1 THEN RMul(blended, ConsensusBoost)
                   ELSE blended
    IN  RMin(One, RMax(Zero, boosted))

\* search.py:147-187: combined_scores.values() in insertion order, each with
\* its final_score.
Combine(semantic, bm25, alpha) ==
    LET c == AddAllBm25(AddAllSemantic(<<>>, semantic), bm25)
    IN  [i \in 1..Len(c) |->
            [key |-> c[i].key,
             result |-> c[i].result,
             semantic_score |-> c[i].semantic_score,
             bm25_score |-> c[i].bm25_score,
             count |-> c[i].count,
             final_score |-> FinalScore(c[i], alpha)]]

\* sorted(..., key=final_score, reverse=True): a stable sort, so entries of
\* equal final_score keep their insertion order.
RECURSIVE InsertDesc(_, _)
InsertDesc(sorted, x) ==
    IF sorted = <<>> THEN <<x>>
    ELSE IF RLt(Head(sorted).final_score, x.final_score)
         THEN <<x>> \o sorted
         ELSE <<Head(sorted)>> \o InsertDesc(Tail(sorted), x)

RECURSIVE SortedDesc(_)
SortedDesc(items) ==
    IF items = <<>> THEN <<>>
    ELSE InsertDesc(SortedDesc(SubSeq(items, 1, Len(items) - 1)),
                    items[Len(items)])

\* Mutant of FormatResults: sorted_results is not cut to k.
FormatResults_NoCut(combined, k) ==
    LET top == SortedDesc(combined)
    IN  [i \in 1..Len(top) |->
            [text |-> top[i].result.text,
             chunk |-> top[i].result.chunk,
             normalized_score |-> top[i].result.normalized_score,
             score |-> top[i].final_score,
             semantic_component |-> top[i].semantic_score,
             bm25_component |-> top[i].bm25_score]]

\* search.py:197-205
FormatResults(combined, k) ==
    LET top == Take(SortedDesc(combined), k)
    IN  [i \in 1..Len(top) |->
            [text |-> top[i].result.text,
             chunk |-> top[i].result.chunk,
             normalized_score |-> top[i].result.normalized_score,
             score |-> top[i].final_score,
             semantic_component |-> top[i].semantic_score,
             bm25_component |-> top[i].bm25_score]]

\* CandidatePool: search.py:121-122 ask each method for k*3 candidates.
CandidatePool(k) == k * 3

-----------------------------------------------------------------------------
(* search_with_boost, search.py:208-221 *)

\* A query string is the sequence of its characters.
Q_Section164 == <<"S", "e", "c", "t", "i", "o", "n", " ", "1", "6", "4">>
Q_section164 == <<"s", "e", "c", "t", "i", "o", "n", " ", "1", "6", "4">>
Q_Sec164 == <<"S", "e", "c", ".", " ", "1", "6", "4">>
Q_Par164 == <<"§", " ", "1", "6", "4">>
Q_SecNoPeriod164 == <<"s", "e", "c", " ", "1", "6", "4">>
Q_ChildTaxCredit == <<"c", "h", "i", "l", "d", " ", "t", "a", "x", " ",
                      "c", "r", "e", "d", "i", "t">>
Q_SectionOnly == <<"s", "e", "c", "t", "i", "o", "n", " ", "o", "n", "e">>
Q_Empty == <<>>

Queries == {Q_Section164, Q_section164, Q_Sec164, Q_Par164, Q_SecNoPeriod164,
            Q_ChildTaxCredit, Q_SectionOnly}

Upper == <<"S", "E", "C", "T", "I", "O", "N">>
LowerOf == <<"s", "e", "c", "t", "i", "o", "n">>

\* str.lower(), on the letters the queries use
LowerChar(c) ==
    IF \E i \in 1..Len(Upper) : Upper[i] = c
    THEN LowerOf[CHOOSE i \in 1..Len(Upper) : Upper[i] = c]
    ELSE c

Lower(q) == [i \in 1..Len(q) |-> LowerChar(q[i])]

Digits == {"0", "1", "2", "3", "4", "5", "6", "7", "8", "9"}
Whitespace == {" "}

\* Mutant of SectionWords: the period of sec\.? is not optional.
SectionWords_PeriodRequired == {<<"§">>,
                                <<"s", "e", "c", "t", "i", "o", "n">>,
                                <<"s", "e", "c", ".">>}

\* The alternatives of (§|section|sec\.?)
SectionWords == {<<"§">>,
                 <<"s", "e", "c", "t", "i", "o", "n">>,
                 <<"s", "e", "c", ".">>,
                 <<"s", "e", "c">>}

MatchesAt(q, i, word) ==
    /\ i + Len(word) - 1 <= Len(q)
    /\ SubSeq(q, i, i + Len(word) - 1) = word

\* \s* : the first position from j on that holds no whitespace
RECURSIVE SkipWhitespace(_, _)
SkipWhitespace(q, j) ==
    IF j <= Len(q) /\ q[j] \in Whitespace THEN SkipWhitespace(q, j + 1) ELSE j

\* bool(re.search(r'(§|section|sec\.?)\s*\d+', query.lower()))
has_section(query) ==
    LET q == Lower(query)
    IN  \E i \in 1..Len(q) : \E word \in SectionWords :
            /\ MatchesAt(q, i, word)
            /\ LET j == SkipWhitespace(q, i + Len(word))
               IN  j <= Len(q) /\ q[j] \in Digits

\* search.py:219
BoostAlpha(query) == IF has_section(query) THEN <<3, 10>> ELSE <<1, 2>>

\* search.py:221: the arguments search_with_boost calls search with.
search_with_boost(query, k) ==
    [query |-> query, k |-> k, alpha |-> BoostAlpha(query)]

\* The vector store behind search_with_boost and the entry points: what it
\* answers to each query. The citations of section 164 are nearest to chunk
\* 3 and match every chunk but the first; 'child tax credit' is nearest to
\* chunks 1 and 2 and matches chunk 1 alone.
CitationsOf164 == {Q_Section164, Q_section164, Q_Sec164, Q_Par164,
                   Q_SecNoPeriod164}

DbDense(query) ==
    CASE query \in CitationsOf164 -> <<<<3, 1>>>>
      [] query = Q_ChildTaxCredit -> <<<<1, 0>>, <<2, 1>>>>
      [] OTHER -> <<>>

DbScores(query) ==
    CASE query \in CitationsOf164 -> [c \in Chunks |-> IF c = 1 THEN 0 ELSE c]
      [] query = Q_ChildTaxCredit -> [c \in Chunks |-> IF c = 1 THEN 3 ELSE 0]
      [] OTHER -> [c \in Chunks |-> 0]

-----------------------------------------------------------------------------
(* The library called sequentially: Spec *)

\* Mutant of initialize_bm25: the early return of search.py:19-20 is left
\* out, so every call reads the corpus and builds.
initialize_bm25_NoGuard(index, docs, metadata) ==
    <<[corpus_size |-> NumChunks],
      [i \in Chunks |-> Corpus[i]],
      [i \in Chunks |-> [doc |-> i]],
      TRUE>>

\* initialize_bm25, search.py:12-47: the three globals after the call, and
\* whether the call read the corpus (line 27 or 30). The snapshot
\* db.similarity_search("", k=100000) (or its fallback, line 30) is the
\* corpus in index order; BM25Okapi is kept as its corpus_size.
initialize_bm25(index, docs, metadata) ==
    IF index # None THEN <<index, docs, metadata, FALSE>>
    ELSE <<[corpus_size |-> NumChunks],
           [i \in Chunks |-> Corpus[i]],
           [i \in Chunks |-> [doc |-> i]],
           TRUE>>

\* The caller is between two calls.
Idle == call.op = "idle"

\* search.py:117-118: the three globals once search has made sure of the index.
EnsureIndex ==
    IF bm25_index = None
    THEN initialize_bm25(bm25_index, bm25_docs, bm25_metadata)
    ELSE <<bm25_index, bm25_docs, bm25_metadata, FALSE>>

\* What search_bm25(query, k) can return when get_scores answers scores: one
\* list per order np.argsort can give to equal scores.
Bm25Outcomes(index, scores, k) ==
    {search_bm25(index, scores, argsorted, k) :
        argsorted \in ArgsortResults(scores)}

\* search, search.py:103-205, with the answers of the two retrieval methods:
\* dense is the ranking of the vector store, lexical what search_bm25 returned.
\* made is the library call the caller made, which ends when search returns.
search(made, query, k, alpha, dense, scores, lexical) ==
    LET semantic == normalize_scores(search_semantic(dense, CandidatePool(k)))
        bm25 == normalize_scores(lexical)
        combined == Combine(semantic, bm25, alpha)
    IN  /\ bm25_index' = EnsureIndex[1]
        /\ bm25_docs' = EnsureIndex[2]
        /\ bm25_metadata' = EnsureIndex[3]
        /\ semantic_results' = semantic
        /\ bm25_results' = bm25
        /\ combined_scores' = combined
        /\ returned' = FormatResults(combined, k)
        /\ call' = [made EXCEPT !.alpha = alpha, !.scores = scores]
        /\ UNCHANGED others

Ks == 1..MaxK

Init ==
    /\ bm25_index = None
    /\ bm25_docs = None
    /\ bm25_metadata = None
    /\ call = [op |-> "idle", query |-> None, k |-> None, alpha |-> None,
               scores |-> None]
    /\ semantic_results = <<>>
    /\ bm25_results = <<>>
    /\ combined_scores = <<>>
    /\ returned = None
    /\ threads = None
    /\ entry = None

\* A caller runs initialize_bm25(db).
InitializeBm25 ==
    LET globals == initialize_bm25(bm25_index, bm25_docs, bm25_metadata)
    IN  /\ Idle
        /\ bm25_index' = globals[1]
        /\ bm25_docs' = globals[2]
        /\ bm25_metadata' = globals[3]
        /\ call' = [op |-> "initialize_bm25", query |-> None, k |-> None,
                    alpha |-> None, scores |-> None,
                    corpus_read |-> globals[4]]
        /\ semantic_results' = <<>>
        /\ bm25_results' = <<>>
        /\ combined_scores' = <<>>
        /\ returned' = None
        /\ UNCHANGED others

\* A caller runs search(db, query, k, alpha).
Search ==
    /\ Idle
    /\ \E scores \in ScoreVectors, k \in Ks :
        \E lexical \in Bm25Outcomes(EnsureIndex[1], scores, CandidatePool(k)) :
            \E alpha \in Alphas, dense \in DenseAnswers :
                search([op |-> "search", query |-> None, k |-> k,
                        alpha |-> None, scores |-> None],
                       None, k, alpha, dense, scores, lexical)

\* A caller runs search_bm25(query, k).
SearchBm25 ==
    /\ Idle
    /\ \E k \in Ks, scores \in ScoreVectors :
        \E lexical \in Bm25Outcomes(bm25_index, scores, k) :
            /\ returned' = lexical
            /\ call' = [op |-> "search_bm25", query |-> None, k |-> k,
                        alpha |-> None, scores |-> scores]
            /\ semantic_results' = <<>>
            /\ bm25_results' = <<>>
            /\ combined_scores' = <<>>
            /\ UNCHANGED <<bm25_index, bm25_docs, bm25_metadata, others>>

\* A caller runs search_with_boost(db, query, k); passed_k is the k that
\* search is called with.
SearchWithBoost ==
    /\ Idle
    /\ \E query \in Queries, k \in Ks :
        LET passed == search_with_boost(query, k)
            scores == DbScores(passed.query)
        IN  \E lexical \in Bm25Outcomes(EnsureIndex[1], scores,
                                         CandidatePool(passed.k)) :
                search([op |-> "search_with_boost", query |-> query, k |-> k,
                        alpha |-> None, scores |-> None,
                        passed_k |-> passed.k],
                       passed.query, passed.k, passed.alpha,
                       DbDense(passed.query), scores, lexical)

\* The caller is done with what the call returned.
Return ==
    /\ ~Idle
    /\ call' = [op |-> "idle", query |-> None, k |-> None, alpha |-> None,
                scores |-> None]
    /\ semantic_results' = <<>>
    /\ bm25_results' = <<>>
    /\ combined_scores' = <<>>
    /\ returned' = None
    /\ UNCHANGED <<bm25_index, bm25_docs, bm25_metadata, others>>

Next == InitializeBm25 \/ Search \/ SearchBm25 \/ SearchWithBoost \/ Return

Spec == Init /\ [][Next]_vars

-----------------------------------------------------------------------------
(* Properties of search, Spec *)

IsSearch == call.op \in {"search", "search_with_boost"}

InUnit(x) == RLe(Zero, x) /\ RLe(x, One)

\* C1: every result search returns has a final score in [0, 1], whatever the
\* raw scores of the two methods are.
C1_ScoreInUnitRange ==
    IsSearch => \A i \in 1..Len(returned) : InUnit(returned[i].score)

\* C1 witness: a sole lexical result keeps its raw BM25 score 3 as its
\* component, alpha is 0, and the result is returned with score 1.
C1_Witness ==
    /\ call.op = "search"
    /\ call.alpha = Zero
    /\ Len(bm25_results) = 1
    /\ \E i \in 1..Len(returned) :
          /\ RLt(One, returned[i].bm25_component)
          /\ returned[i].score = One

\* C2: search returns at most k results, in non-increasing order of score.
C2_AtMostKSortedDesc ==
    IsSearch =>
        /\ Len(returned) <= call.k
        /\ \A i, j \in 1..Len(returned) :
              i < j => RLe(returned[j].score, returned[i].score)

\* C2 witness: k = 1, two fusion entries tie for the top score, one result
\* is returned.
C2_Witness ==
    /\ call.op = "search"
    /\ call.k = 1
    /\ Len(returned) = 1
    /\ \E i, j \in 1..Len(combined_scores) :
          /\ i # j
          /\ combined_scores[i].final_score = combined_scores[j].final_score
          /\ \A m \in 1..Len(combined_scores) :
                RLe(combined_scores[m].final_score, combined_scores[i].final_score)

\* The fusion key is among the keys of a result list.
InList(key, results) == \E i \in 1..Len(results) : KeyOf(results[i]) = key

FoundByBoth(key) == InList(key, semantic_results) /\ InList(key, bm25_results)

\* m * (alpha*s + (1-alpha)*b), m = 1.2 when both methods returned the key
ClaimedBlend(data, alpha) ==
    RMul(IF FoundByBoth(data.key) THEN <<6, 5>> ELSE One,
         RAdd(RMul(alpha, data.semantic_score),
              RMul(RSub(One, alpha), data.bm25_score)))

\* C7: the final score of every fusion key is
\* min(1, max(0, m * (alpha*s + (1-alpha)*b))), with m = 1.2 if the item was
\* returned by both methods and m = 1 otherwise.
C7_FinalScoreFormula ==
    IsSearch =>
        \A i \in 1..Len(combined_scores) :
            combined_scores[i].final_score =
                RMin(One, RMax(Zero, ClaimedBlend(combined_scores[i], call.alpha)))

\* C8: every hit count is 1 or 2, and it is above 1 only if both the dense
\* list and the lexical list returned the item.
C8_HitCountOneOrTwo ==
    IsSearch =>
        \A i \in 1..Len(combined_scores) :
            /\ combined_scores[i].count \in {1, 2}
            /\ combined_scores[i].count > 1 => FoundByBoth(combined_scores[i].key)

\* The raw scores of a result list.
RawScores(results) == {results[i].score : i \in 1..Len(results)}

\* normalized_score of every result of a list is as C9 says.
NormalizedAsClaimed(results) ==
    IF Len(results) < 2
    THEN \A i \in 1..Len(results) : results[i].normalized_score = None
    ELSE LET lo == CHOOSE x \in RawScores(results) :
                     \A y \in RawScores(results) : RLe(x, y)
             hi == CHOOSE x \in RawScores(results) :
                     \A y \in RawScores(results) : RLe(y, x)
         IN  \A i \in 1..Len(results) :
                LET r == results[i]
                IN  /\ r.normalized_score # None
                    /\ InUnit(r.normalized_score)
                    /\ lo = hi => r.normalized_score = One
                    /\ lo # hi =>
                          /\ RMul(r.normalized_score, RSub(hi, lo)) = RSub(r.score, lo)
                          /\ r.score = hi => r.normalized_score = One
                          /\ r.score = lo => r.normalized_score = Zero

\* C9: normalize_scores min-max scales a list of 2 or more results (best 1.0,
\* worst 0.0, all in [0,1]), sets every normalized_score to 1.0 when all raw
\* scores are equal, and leaves a list of 0 or 1 results without
\* normalized_score.
C9_NormalizeScores ==
    IsSearch =>
        /\ NormalizedAsClaimed(semantic_results)
        /\ NormalizedAsClaimed(bm25_results)

\* C9 witness: one list has three distinct raw scores (so a value strictly
\* between 0 and 1), the other has two or more equal raw scores.
C9_Witness ==
    /\ call.op = "search"
    /\ Cardinality(RawScores(semantic_results)) = 3
    /\ \E i \in 1..Len(semantic_results) :
          /\ RLt(Zero, semantic_results[i].normalized_score)
          /\ RLt(semantic_results[i].normalized_score, One)
    /\ Len(bm25_results) >= 2
    /\ Cardinality(RawScores(bm25_results)) = 1

ReturnedChunks == {returned[i].chunk : i \in 1..Len(returned)}

\* The sets of k chunks (all of them when the corpus is smaller) that score
\* at least as high as every chunk left out.
TopSets(scores, k) ==
    {T \in SUBSET Chunks :
        /\ Cardinality(T) = IF k < NumChunks THEN k ELSE NumChunks
        /\ \A c \in T, d \in Chunks \ T : scores[d] <= scores[c]}

\* C10: on a built index search_bm25 returns exactly the chunks that are
\* among k highest-scoring chunks and score above 0, in non-increasing score
\* order, never more than k.
C10_Bm25TopKPositive ==
    (call.op = "search_bm25" /\ bm25_index # None) =>
        /\ Len(returned) <= call.k
        /\ \A i \in 1..Len(returned) :
              /\ returned[i].score = <<call.scores[returned[i].chunk], 1>>
              /\ call.scores[returned[i].chunk] > 0
        /\ \A i, j \in 1..Len(returned) :
              i < j => /\ RLe(returned[j].score, returned[i].score)
                       /\ returned[i].chunk # returned[j].chunk
        /\ \E T \in TopSets(call.scores, call.k) :
              ReturnedChunks = {c \in T : call.scores[c] > 0}

\* C10 witness: the cut at k leaves out a chunk that scores above 0, while a
\* chunk that scores 0 exists.
C10_Witness ==
    /\ call.op = "search_bm25"
    /\ bm25_index # None
    /\ Len(returned) = call.k
    /\ \E c \in Chunks \ ReturnedChunks : call.scores[c] > 0
    /\ \E c \in Chunks : call.scores[c] = 0

\* C11: among chunks of equal lexical score search_bm25 puts the one with
\* the lower corpus index first, and at the cut at k it keeps the one with the
\* lower corpus index.
C11_TiesByCorpusIndex ==
    (call.op = "search_bm25" /\ bm25_index # None) =>
        /\ \A i, j \in 1..Len(returned) :
              (i < j /\ returned[i].score = returned[j].score) =>
                  returned[i].chunk < returned[j].chunk
        /\ \A i \in 1..Len(returned) : \A c \in Chunks \ ReturnedChunks :
              call.scores[c] = call.scores[returned[i].chunk] =>
                  returned[i].chunk < c

\* C12: once the index is built, no call changes _bm25_index, _bm25_docs or
\* _bm25_metadata, and a further initialize_bm25 reads no corpus.
C12_BuiltIndexIsFrozen ==
    [][bm25_index # None =>
          /\ <<bm25_index, bm25_docs, bm25_metadata>>' =
                <<bm25_index, bm25_docs, bm25_metadata>>
          /\ call'.op = "initialize_bm25" => ~call'.corpus_read]_vars

\* C12 witness: initialize_bm25 has returned from a call made on a built
\* index, without a corpus read.
C12_Witness ==
    /\ call.op = "initialize_bm25"
    /\ ~call.corpus_read
    /\ bm25_index # None
    /\ Len(bm25_docs) = NumChunks
    /\ Len(bm25_metadata) = NumChunks

\* C13: semantic_component and bm25_component of every result search
\* returns lie in [0, 1].
C13_ComponentsInUnitRange ==
    IsSearch =>
        \A i \in 1..Len(returned) :
            /\ InUnit(returned[i].semantic_component)
            /\ InUnit(returned[i].bm25_component)

\* The items of a result list, in order, each with its score.
Ranked(results) ==
    [i \in 1..Len(results) |-> <<results[i].chunk, results[i].score>>]

\* C14: with alpha = 1 search returns the items, order and scores it returns
\* for the same dense list and an empty lexical list, whatever the lexical
\* list is; with alpha = 0 those it returns for the same lexical list and an
\* empty dense list, whatever the dense list is.
C14_AlphaExtremesArePure ==
    /\ (call.op = "search" /\ call.alpha = One) =>
          Ranked(returned) =
              Ranked(FormatResults(Combine(semantic_results, <<>>, One), call.k))
    /\ (call.op = "search" /\ call.alpha = Zero) =>
          Ranked(returned) =
              Ranked(FormatResults(Combine(<<>>, bm25_results, Zero), call.k))

\* The words of the claim: the symbol, 'section' and 'sec.' with its period.
ClaimedWords == {<<"§">>,
                 <<"s", "e", "c", "t", "i", "o", "n">>,
                 <<"s", "e", "c", ".">>}

\* The query, whatever its case, holds one of the claimed words followed by
\* a number (blanks between them allowed).
ClaimedCitation(query) ==
    \E i \in 1..Len(query) : \E word \in ClaimedWords :
        /\ i + Len(word) - 1 <= Len(query)
        /\ \A n \in 1..Len(word) : LowerChar(query[i + n - 1]) = word[n]
        /\ \E j \in (i + Len(word))..Len(query) :
              /\ query[j] \in Digits
              /\ \A m \in (i + Len(word))..(j - 1) : query[m] = " "

\* C15 as claimed: search_with_boost calls search with alpha = 0.3 exactly
\* when the query holds the symbol, 'section' or 'sec.' followed by a number,
\* with 0.5 otherwise, and with the caller's k.
C15_BoostOnClaimedCitation ==
    call.op = "search_with_boost" =>
        /\ call.alpha = (IF ClaimedCitation(call.query) THEN <<3, 10>>
                         ELSE <<1, 2>>)
        /\ call.passed_k = call.k

\* C15 as amended: the period of 'sec.' is optional. 'Section 164',
\* 'section 164', 'Sec. 164', the symbol before 164 and 'sec 164' get
\* alpha = 0.3; 'child tax credit' and 'section one' get 0.5; k is passed on
\* as it came.
C15_BoostOnCitationOptionalPeriod ==
    call.op = "search_with_boost" =>
        /\ call.query \in {Q_Section164, Q_section164, Q_Sec164, Q_Par164,
                           Q_SecNoPeriod164} => call.alpha = <<3, 10>>
        /\ call.query \in {Q_ChildTaxCredit, Q_SectionOnly} =>
              call.alpha = <<1, 2>>
        /\ call.alpha \in {<<3, 10>>, <<1, 2>>}
        /\ call.passed_k = call.k

\* C15 witness: search_with_boost has searched 'sec 164' with k = 2 and
\* alpha = 0.3.
C15_Witness ==
    /\ call.op = "search_with_boost"
    /\ call.query = Q_SecNoPeriod164
    /\ call.k = 2
    /\ call.passed_k = 2
    /\ call.alpha = <<3, 10>>
    /\ Len(returned) = 2

-----------------------------------------------------------------------------
(* Threads calling search and initialize_bm25 concurrently: SpecThreads.   *)
(* A step is one statement of search.py; the interpreter may switch        *)
(* threads between any two of them; a statement that touches none of the   *)
(* three globals runs together with the one before it. The query of every  *)
(* search matches every chunk, and k is large enough to keep them all.     *)

Threads == 1..NumThreads

\* op: the library function the thread called; pc: the statement it is at;
\* i: its loop index; tokenized: its local tokenized_docs; n: the length of
\* its local scores; entered: it has run past the check of search.py:19.
\* A local that is dead (the function that owns it has returned or raised)
\* is back at its value in NewThread.
NewThread == [op |-> "none", pc |-> "start", i |-> 0, tokenized |-> None,
              n |-> 0, entered |-> FALSE]

InitThreads ==
    /\ bm25_index = None
    /\ bm25_docs = None
    /\ bm25_metadata = None
    /\ call = None
    /\ semantic_results = <<>>
    /\ bm25_results = <<>>
    /\ combined_scores = <<>>
    /\ returned = None
    /\ threads = [t \in Threads |-> NewThread]
    /\ entry = None

results_vars == <<call, semantic_results, bm25_results, combined_scores,
                  returned, entry>>

globals_vars == <<bm25_index, bm25_docs, bm25_metadata>>

At(t, pc) == threads[t].pc = pc

Goto(t, pc) == threads' = [threads EXCEPT ![t].pc = pc]

\* Where initialize_bm25 returns to: search.py:121-122 (search_semantic, then
\* the call of search_bm25), or the thread's caller.
AfterInit(t) == IF threads[t].op = "search" THEN "bm25_check" ELSE "done"

\* The thread calls search(db, query, k), initialize_bm25(db) or
\* search_bm25(query, k).
TCall(t) ==
    /\ At(t, "start")
    /\ \E op \in {"search", "initialize_bm25", "search_bm25"} :
          threads' = [threads EXCEPT
                        ![t].op = op,
                        ![t].pc = CASE op = "search" -> "search_check"
                                    [] op = "initialize_bm25" -> "init_check"
                                    [] OTHER -> "bm25_check"]
    /\ UNCHANGED <<globals_vars, results_vars>>

\* Mutant of TSearchCheck: search goes on to its retrieval steps without
\* the call of initialize_bm25.
TSearchCheck_NoInit(t) ==
    /\ At(t, "search_check")
    /\ Goto(t, "bm25_check")
    /\ UNCHANGED <<globals_vars, results_vars>>

\* search.py:117  if _bm25_index is None: initialize_bm25(db)
TSearchCheck(t) ==
    /\ At(t, "search_check")
    /\ Goto(t, IF bm25_index = None THEN "init_check" ELSE "bm25_check")
    /\ UNCHANGED <<globals_vars, results_vars>>

\* search.py:19-30  if _bm25_index is not None: return; otherwise the body
\* starts with all_results = db.similarity_search("", k=100000)
TInitCheck(t) ==
    /\ At(t, "init_check")
    /\ threads' = [threads EXCEPT
                     ![t].pc = IF bm25_index # None THEN AfterInit(t)
                               ELSE "reset_docs",
                     ![t].entered = (bm25_index = None)]
    /\ UNCHANGED <<globals_vars, results_vars>>

\* search.py:32  _bm25_docs = []
TResetDocs(t) ==
    /\ At(t, "reset_docs")
    /\ bm25_docs' = <<>>
    /\ Goto(t, "reset_metadata")
    /\ UNCHANGED <<bm25_index, bm25_metadata, results_vars>>

\* search.py:33  _bm25_metadata = [], and the loop of line 35 starts
TResetMetadata(t) ==
    /\ At(t, "reset_metadata")
    /\ bm25_metadata' = <<>>
    /\ threads' = [threads EXCEPT ![t].pc = "append_doc", ![t].i = 1]
    /\ UNCHANGED <<bm25_index, bm25_docs, results_vars>>

\* search.py:36  _bm25_docs.append(doc.page_content)
TAppendDoc(t) ==
    /\ At(t, "append_doc")
    /\ bm25_docs' = Append(bm25_docs, Corpus[threads[t].i])
    /\ Goto(t, "append_metadata")
    /\ UNCHANGED <<bm25_index, bm25_metadata, results_vars>>

\* search.py:37-41  _bm25_metadata.append({...}), and the loop goes on or ends
TAppendMetadata(t) ==
    /\ At(t, "append_metadata")
    /\ bm25_metadata' = Append(bm25_metadata, [doc |-> threads[t].i])
    /\ threads' = [threads EXCEPT
                     ![t].pc = IF threads[t].i < NumChunks THEN "append_doc"
                               ELSE "tokenize",
                     ![t].i = IF threads[t].i < NumChunks THEN @ + 1 ELSE 0]
    /\ UNCHANGED <<bm25_index, bm25_docs, results_vars>>

\* search.py:44  tokenized_docs = [doc.lower().split() for doc in _bm25_docs]
TTokenize(t) ==
    /\ At(t, "tokenize")
    /\ threads' = [threads EXCEPT ![t].pc = "set_index",
                                  ![t].tokenized = Len(bm25_docs)]
    /\ UNCHANGED <<globals_vars, results_vars>>

\* search.py:45  _bm25_index = BM25Okapi(tokenized_docs)
TSetIndex(t) ==
    /\ At(t, "set_index")
    /\ bm25_index' = [corpus_size |-> threads[t].tokenized]
    /\ threads' = [threads EXCEPT ![t].pc = AfterInit(t),
                                  ![t].tokenized = None]
    /\ UNCHANGED <<bm25_docs, bm25_metadata, results_vars>>

\* search.py:75  if _bm25_index is None: return []
TBm25Check(t) ==
    /\ At(t, "bm25_check")
    /\ Goto(t, IF bm25_index = None THEN "bm25_empty" ELSE "get_scores")
    /\ UNCHANGED <<globals_vars, results_vars>>

\* search.py:76  return []: search_bm25 ends for want of an index
TBm25Empty(t) ==
    /\ At(t, "bm25_empty")
    /\ Goto(t, "done")
    /\ UNCHANGED <<globals_vars, results_vars>>

\* search.py:82-85  scores = _bm25_index.get_scores(...); top_indices = ...
TGetScores(t) ==
    /\ At(t, "get_scores")
    /\ threads' = [threads EXCEPT
                     ![t].n = bm25_index.corpus_size,
                     ![t].i = IF bm25_index.corpus_size = 0 THEN 0 ELSE 1,
                     ![t].pc = IF bm25_index.corpus_size = 0 THEN "done"
                               ELSE "read_metadata"]
    /\ UNCHANGED <<globals_vars, results_vars>>

\* search.py:90  meta = _bm25_metadata[idx]  (IndexError past the end)
TReadMetadata(t) ==
    /\ At(t, "read_metadata")
    /\ threads' = IF threads[t].i <= Len(bm25_metadata)
                  THEN [threads EXCEPT ![t].pc = "read_doc"]
                  ELSE [threads EXCEPT ![t].pc = "raised", ![t].i = 0,
                                       ![t].n = 0]
    /\ UNCHANGED <<globals_vars, results_vars>>

\* search.py:91-98  "text": _bm25_docs[idx]  (IndexError past the end), and
\* the loop goes on or ends; search.py:100-205 after it touch no global
TReadDoc(t) ==
    /\ At(t, "read_doc")
    /\ threads' =
          IF threads[t].i > Len(bm25_docs)
          THEN [threads EXCEPT ![t].pc = "raised", ![t].i = 0, ![t].n = 0]
          ELSE IF threads[t].i < threads[t].n
          THEN [threads EXCEPT ![t].pc = "read_metadata", ![t].i = @ + 1]
          ELSE [threads EXCEPT ![t].pc = "done", ![t].i = 0, ![t].n = 0]
    /\ UNCHANGED <<globals_vars, results_vars>>

NextThreads ==
    \E t \in Threads :
        \/ TCall(t)
        \/ TSearchCheck(t)
        \/ TInitCheck(t)
        \/ TResetDocs(t)
        \/ TResetMetadata(t)
        \/ TAppendDoc(t)
        \/ TAppendMetadata(t)
        \/ TTokenize(t)
        \/ TSetIndex(t)
        \/ TBm25Check(t)
        \/ TBm25Empty(t)
        \/ TGetScores(t)
        \/ TReadMetadata(t)
        \/ TReadDoc(t)

SpecThreads == InitThreads /\ [][NextThreads]_vars

-----------------------------------------------------------------------------
(* Properties of the concurrent first calls, SpecThreads *)

\* The thread is in the body of initialize_bm25, search.py:22-45.
InBuildBody(t) ==
    threads[t].pc \in {"reset_docs", "reset_metadata", "append_doc",
                       "append_metadata", "tokenize", "set_index"}

\* The thread is in search_bm25 past the check of line 75, using the index
\* and reading _bm25_metadata and _bm25_docs.
Querying(t) == threads[t].pc \in {"get_scores", "read_metadata", "read_doc"}

\* The threads that have run the body of initialize_bm25, or are in it.
Builders == {t \in Threads : threads[t].entered}

\* C3: with concurrent first calls the index is built once, and no query
\* uses the index while another thread's build resets or refills
\* _bm25_docs and _bm25_metadata.
C3_BuiltOnceNoPartialRead ==
    /\ Cardinality(Builders) <= 1
    /\ \A t, u \in Threads : (t # u /\ Querying(t)) => ~InBuildBody(u)

\* The thread is at a statement of search_bm25, search.py:75-98.
InLexicalStep(t) ==
    threads[t].pc \in {"bm25_check", "bm25_empty", "get_scores",
                       "read_metadata", "read_doc"}

\* C16: a thread that called search is in the lexical step only when a build
\* has set _bm25_index, and never at the return [] of search.py:76.
C16_SearchQueriesBuiltIndex ==
    \A t \in Threads :
        threads[t].op = "search" =>
            /\ threads[t].pc # "bm25_empty"
            /\ InLexicalStep(t) => bm25_index # None

\* C16 witness: the first search of the process has built the index itself
\* and is past the check of search_bm25, and a second thread that called
\* search after it found the index built and is at that check.
C16_Witness ==
    \E t, u \in Threads :
        /\ t # u
        /\ threads[t].op = "search"
        /\ threads[t].entered
        /\ threads[t].pc = "get_scores"
        /\ threads[u].op = "search"
        /\ ~threads[u].entered
        /\ threads[u].pc = "bm25_check"

-----------------------------------------------------------------------------
(* The entry points: POST /search and GET /search/{query} of               *)
(* http_server.py, and the tool search_tax_code of main.py: SpecEntry.     *)

\* A field the request leaves out.
Omitted == <<>>

\* What a request may carry; a top_k that is given is the one-element tuple
\* of its value.
RequestQueries == {Q_Empty, Q_Section164, Q_ChildTaxCredit}
RequestTopKs == {Omitted, <<0>>, <<1>>, <<20>>, <<21>>}
RequestAlphas == {Omitted, <<-1, 10>>, <<0, 1>>, <<3, 10>>, <<1, 1>>, <<3, 2>>}

\* The step of search at which an exception is raised, if any.
Faults == {"none", "dense", "lexical", "fusion"}

\* http_server.py:40-42 and main.py:27-32: the module loads the vector store
\* and runs initialize_bm25 before it serves a request.
Startup == initialize_bm25(None, None, None)

\* round(score, 4), to the nearest ten-thousandth, ties to even
Round4(x) ==
    LET scaled == x[1] * 10000
        q == scaled \div x[2]
        twice == 2 * (scaled % x[2])
        up == twice > x[2] \/ (twice = x[2] /\ q % 2 = 1)
    IN  Rat(IF up THEN q + 1 ELSE q, 10000)

\* search called by an entry point, search.py:103-205: what it returns or
\* raises, and which retrieval methods it called on the way.
RunSearch(query, k, alpha, fault, lexical) ==
    IF fault = "dense"
    THEN [raised |-> TRUE, cause |-> "dense", results |-> <<>>,
          dense_called |-> TRUE, lexical_called |-> FALSE]
    ELSE IF fault = "lexical"
    THEN [raised |-> TRUE, cause |-> "lexical", results |-> <<>>,
          dense_called |-> TRUE, lexical_called |-> TRUE]
    ELSE IF fault = "fusion"
    THEN [raised |-> TRUE, cause |-> "fusion", results |-> <<>>,
          dense_called |-> TRUE, lexical_called |-> TRUE]
    ELSE [raised |-> FALSE, cause |-> "none",
          results |-> FormatResults(
              Combine(normalize_scores(
                          search_semantic(DbDense(query), CandidatePool(k))),
                      normalize_scores(lexical), alpha), k),
          dense_called |-> TRUE, lexical_called |-> TRUE]

\* Mutant of AlphaUsed: a request without alpha gets the weight that
\* search_with_boost would choose.
AlphaUsed_Adaptive(endpoint, query, alpha) ==
    IF endpoint = "search_tax_code" \/ alpha = Omitted THEN BoostAlpha(query)
    ELSE alpha

\* The alpha an entry point passes to search: http_server.py:49 and 164 give
\* a request without alpha 0.5; main.py:93 passes none, so search.py:103
\* uses its default 0.5.
AlphaUsed(endpoint, query, alpha) ==
    IF endpoint = "search_tax_code" \/ alpha = Omitted THEN <<1, 2>>
    ELSE alpha

\* The k an entry point passes to search: the default 5 of http_server.py:48,
\* 164 and main.py:77, and the clamp of main.py:86.
KUsed(endpoint, top_k) ==
    LET given == IF top_k = Omitted THEN 5 ELSE top_k[1]
    IN  IF endpoint = "search_tax_code"
        THEN (IF given < 1 THEN 1 ELSE IF given > 20 THEN 20 ELSE given)
        ELSE given

\* The request is turned away before the handler body runs search:
\* pydantic's check of SearchRequest (http_server.py:46-49), the route
\* /search/{query} that an empty path segment does not match
\* (http_server.py:163), and the empty-query check of main.py:80-84.
Rejection(endpoint, query, top_k, alpha) ==
    CASE endpoint = "POST /search" ->
            IF \/ (top_k # Omitted /\ (top_k[1] < 1 \/ top_k[1] > 20))
               \/ (alpha # Omitted /\ (RLt(alpha, Zero) \/ RLt(One, alpha)))
            THEN "validation_error" ELSE "none"
      [] endpoint = "GET /search/{query}" ->
            IF query = Q_Empty THEN "no_route" ELSE "none"
      [] OTHER ->
            IF query = Q_Empty THEN "validation_error" ELSE "none"

\* Mutant of Respond: the handler answers a failed search with the results
\* of a search that did not fail.
Respond_Partial(endpoint, query, k, alpha, ran) ==
    IF ran.raised
    THEN [kind |-> "search_error", detail |-> ran.cause,
          results |-> RunSearch(query, k, alpha, "none", <<>>).results,
          total |-> 0, alpha |-> None]
    ELSE [kind |-> "ok", detail |-> "none", results |-> ran.results,
          total |-> Len(ran.results), alpha |-> alpha]

\* The try/except of http_server.py:141-161, 170-190 and main.py:91-124.
Respond(endpoint, query, k, alpha, ran) ==
    IF ran.raised
    THEN [kind |-> "search_error", detail |-> ran.cause, results |-> <<>>,
          total |-> 0, alpha |-> None]
    ELSE [kind |-> "ok", detail |-> "none",
          results |-> IF endpoint = "search_tax_code" THEN ran.results
                      ELSE [i \in 1..Len(ran.results) |->
                              [ran.results[i] EXCEPT !.score = Round4(@)]],
          total |-> Len(ran.results),
          alpha |-> IF endpoint = "search_tax_code" THEN None ELSE alpha]

InitEntry ==
    /\ bm25_index = Startup[1]
    /\ bm25_docs = Startup[2]
    /\ bm25_metadata = Startup[3]
    /\ call = None
    /\ semantic_results = <<>>
    /\ bm25_results = <<>>
    /\ combined_scores = <<>>
    /\ returned = None
    /\ threads = None
    /\ entry = [pc |-> "idle"]

library_vars == <<call, semantic_results, bm25_results, combined_scores,
                  returned, threads>>

\* The handler of one entry point, from the request to the response.
Handle(endpoint, query, top_k, alpha, fault) ==
    LET rejection == Rejection(endpoint, query, top_k, alpha)
        k == KUsed(endpoint, top_k)
        a == AlphaUsed(endpoint, query, alpha)
    IN  /\ entry.pc = "idle"
        /\ IF rejection # "none"
           THEN /\ entry' = [pc |-> "responded", endpoint |-> endpoint,
                             query |-> query, top_k |-> top_k, alpha |-> alpha,
                             fault |-> fault,
                             before |-> <<bm25_index, bm25_docs, bm25_metadata>>,
                             searched |-> FALSE, k_used |-> None,
                             alpha_used |-> None,
                             dense_called |-> FALSE, lexical_called |-> FALSE,
                             response |-> [kind |-> rejection, detail |-> "none",
                                           results |-> <<>>, total |-> 0,
                                           alpha |-> None]]
                /\ UNCHANGED globals_vars
           ELSE \E lexical \in Bm25Outcomes(EnsureIndex[1], DbScores(query),
                                             CandidatePool(k)) :
                  LET ran == RunSearch(query, k, a, fault, lexical)
                  IN  /\ entry' = [pc |-> "responded", endpoint |-> endpoint,
                                   query |-> query, top_k |-> top_k,
                                   alpha |-> alpha, fault |-> fault,
                                   before |-> <<bm25_index, bm25_docs,
                                                bm25_metadata>>,
                                   searched |-> TRUE, k_used |-> k,
                                   alpha_used |-> a,
                                   dense_called |-> ran.dense_called,
                                   lexical_called |-> ran.lexical_called,
                                   response |-> Respond(endpoint, query, k, a, ran)]
                      /\ bm25_index' = EnsureIndex[1]
                      /\ bm25_docs' = EnsureIndex[2]
                      /\ bm25_metadata' = EnsureIndex[3]
        /\ UNCHANGED library_vars

\* http_server.py:123-161; a body without query never reaches the handler.
PostSearch ==
    \E query \in RequestQueries, top_k \in RequestTopKs,
       alpha \in RequestAlphas, fault \in Faults :
        Handle("POST /search", query, top_k, alpha, fault)

\* http_server.py:163-190
GetSearch ==
    \E query \in RequestQueries, top_k \in RequestTopKs,
       alpha \in RequestAlphas, fault \in Faults :
        Handle("GET /search/{query}", query, top_k, alpha, fault)

\* main.py:71-129, name = "search_tax_code"; arguments holds no alpha.
CallTool ==
    \E query \in RequestQueries, top_k \in RequestTopKs, fault \in Faults :
        Handle("search_tax_code", query, top_k, Omitted, fault)

\* The response is sent; the next request may come.
Responded ==
    /\ entry.pc = "responded"
    /\ entry' = [pc |-> "idle"]
    /\ UNCHANGED <<globals_vars, library_vars>>

NextEntry == PostSearch \/ GetSearch \/ CallTool \/ Responded

SpecEntry == InitEntry /\ [][NextEntry]_vars

-----------------------------------------------------------------------------
(* Properties of the entry points, SpecEntry *)

\* A response is out for a request whose handler called search.
Searched == entry.pc = "responded" /\ entry.searched

\* The search of the request ran its fusion pass and returned.
Fused == Searched /\ entry.response.kind = "ok"

\* C4 as claimed: a request without alpha is fused with the weight of the
\* Adaptive Weight Selector, 0.3 for a section citation and 0.5 otherwise.
C4_OmittedAlphaIsAdaptive ==
    (Fused /\ entry.alpha = Omitted) =>
        entry.alpha_used = BoostAlpha(entry.query)

\* C4 as amended: a request without alpha is fused with alpha = 0.5 whatever
\* the query is; no entry point runs the Adaptive Weight Selector.
C4_OmittedAlphaIsHalf ==
    (Fused /\ entry.alpha = Omitted) => entry.alpha_used = <<1, 2>>

\* C4 witness: the tool search_tax_code has searched 'Section 164', a
\* section citation, with alpha 0.5.
C4_Witness ==
    /\ Fused
    /\ entry.endpoint = "search_tax_code"
    /\ entry.query = Q_Section164
    /\ entry.alpha = Omitted
    /\ entry.alpha_used = <<1, 2>>
    /\ has_section(entry.query)
    /\ entry.response.kind = "ok"

\* The request has an empty query, a top_k outside [1,20] or an alpha
\* outside [0,1].
BadInput ==
    \/ entry.query = Q_Empty
    \/ (entry.top_k # Omitted /\ (entry.top_k[1] < 1 \/ entry.top_k[1] > 20))
    \/ (entry.alpha # Omitted /\ ~InUnit(entry.alpha))

\* C5: every entry point turns a request with bad input away with an error
\* that is not a search failure, and runs neither retrieval method for it.
C5_BadInputRejected ==
    (entry.pc = "responded" /\ BadInput) =>
        /\ entry.response.kind \in {"validation_error", "no_route"}
        /\ ~entry.dense_called
        /\ ~entry.lexical_called

\* C6: when a step of search raises, the entry point answers with one
\* search error that carries the cause, with no result items, and the
\* lexical index is as it was before the request.
C6_SearchFailureIsOneError ==
    (Searched /\ entry.fault # "none") =>
        /\ entry.response.kind = "search_error"
        /\ entry.response.detail = entry.fault
        /\ entry.response.results = <<>>
        /\ entry.response.total = 0
        /\ <<bm25_index, bm25_docs, bm25_metadata>> = entry.before

\* C6 witness: the fusion step raised for a query that both methods had
\* answered, and the response is the search error.
C6_Witness ==
    /\ Searched
    /\ entry.fault = "fusion"
    /\ entry.query = Q_ChildTaxCredit
    /\ entry.dense_called
    /\ entry.lexical_called
    /\ entry.response.kind = "search_error"

====
